---- MODULE Spec2Model ----
(***************************************************************************)
(* Model of the incremental sync engine of src/download_and_convert.py:    *)
(* convert_json_to_markdown with the image resolver it drives              *)
(* (generate_article_markdown, compute_local_image_paths,                  *)
(* save_image_locally, download_s3_image_via_lambda), the identity lookup  *)
(* (get_existing_article_ids, get_existing_article_content) and the        *)
(* change log log.md.                                                      *)
(*                                                                         *)
(* Text is modelled as sequences of one-character strings where the code   *)
(* works on characters (titles, ids), and as sequences of tokens where it  *)
(* works on delimiters (an image URL's tail after the host: key segments,  *)
(* "/" and "?").  A Markdown document is the record of the fields the      *)
(* fixed document template prints; two documents are byte-identical iff    *)
(* the records are equal.                                                  *)
(***************************************************************************)
EXTENDS Integers, Sequences, FiniteSets, TLC

VARIABLES source, dir, images, log, runs, last, prev, relOf, ret, input, output

vars == <<source, dir, images, log, runs, last, prev, relOf, ret, input, output>>

\* Number of runs of convert_json_to_markdown a behaviour may hold.
MaxRuns == 2

\* The element of a one-element set.  {e(x) : x \in {v}} names the value v
\* as x inside e, the way the code holds an intermediate result in a local
\* variable.
Only(S) == CHOOSE x \in S : TRUE

(***************************************************************************)
(* Characters                                                              *)
(***************************************************************************)
UpperCase ==
    <<"A", "B", "C", "D", "E", "F", "G", "H", "I", "J", "K", "L", "M",
      "N", "O", "P", "Q", "R", "S", "T", "U", "V", "W", "X", "Y", "Z">>

LowerCase ==
    <<"a", "b", "c", "d", "e", "f", "g", "h", "i", "j", "k", "l", "m",
      "n", "o", "p", "q", "r", "s", "t", "u", "v", "w", "x", "y", "z">>

Digits == {"0", "1", "2", "3", "4", "5", "6", "7", "8", "9"}

Whitespace == {" ", "\t", "\n"}

\* str.lower() on one character
lower(c) ==
    IF \E i \in 1..Len(UpperCase) : UpperCase[i] = c
    THEN LowerCase[CHOOSE i \in 1..Len(UpperCase) : UpperCase[i] = c]
    ELSE c

\* \w of the re module: letters, digits and the underscore
IsWordChar(c) ==
    \/ \E i \in 1..Len(UpperCase) : c = UpperCase[i] \/ c = LowerCase[i]
    \/ c \in Digits
    \/ c = "_"

\* re.sub(r"[^\w\s-]", "", value.lower())
KeepSlugChar(c) == IsWordChar(c) \/ c \in Whitespace \/ c = "-"

RECURSIVE CollapseRuns(_)
\* re.sub(r"[-\s]+", "-", value): every maximal run of hyphens and
\* whitespace becomes one hyphen
CollapseRuns(s) ==
    IF s = <<>> THEN <<>>
    ELSE IF Head(s) \in Whitespace \cup {"-"}
         THEN IF Len(s) > 1 /\ s[2] \in Whitespace \cup {"-"}
              THEN CollapseRuns(Tail(s))
              ELSE <<"-">> \o CollapseRuns(Tail(s))
         ELSE <<Head(s)>> \o CollapseRuns(Tail(s))

RECURSIVE LStrip(_, _)
LStrip(s, chars) ==
    IF s # <<>> /\ Head(s) \in chars THEN LStrip(Tail(s), chars) ELSE s

RECURSIVE RStrip(_, _)
RStrip(s, chars) ==
    IF s # <<>> /\ s[Len(s)] \in chars
    THEN RStrip(SubSeq(s, 1, Len(s) - 1), chars)
    ELSE s

\* str.lstrip(chars) in place of str.strip(chars): the end is left as it is
StripCharsLeft(s, chars) == LStrip(s, chars)

\* str.strip(chars)
StripChars(s, chars) == RStrip(LStrip(s, chars), chars)

\* slugify(value): NFKC leaves the ASCII alphabet of the model unchanged
slugify(value) ==
    LET lowered == [i \in 1..Len(value) |-> lower(value[i])]
        kept    == SelectSeq(lowered, KeepSlugChar)
    IN  StripChars(CollapseRuns(kept), {"-", "_"})

(***************************************************************************)
(* Dates                                                                   *)
(***************************************************************************)
\* The date datetime.fromisoformat / strptime parse out of a raw
\* last_edited_date, "" when parsing raises.
ParsedDate(date_str) ==
    CASE date_str = "2025-09-19"               -> "2025-09-19"
      [] date_str = "2025-09-20T08:00:00.000Z" -> "2025-09-20"
      [] OTHER                                 -> ""

format_date(date_str) ==
    IF date_str = "" THEN "Unknown date"
    ELSE IF ParsedDate(date_str) # "" THEN ParsedDate(date_str)
    ELSE date_str

format_date_for_filename(date_str) ==
    IF date_str = "" THEN "unknown-date"
    ELSE IF ParsedDate(date_str) # "" THEN ParsedDate(date_str)
    ELSE "unknown-date"

(***************************************************************************)
(* Paths: sequences of components below the working directory              *)
(***************************************************************************)
out_dir == <<"md_export">>

RECURSIVE NormInto(_, _)
\* os.path.normpath on a relative path: drops "" and ".", resolves ".."
NormInto(done, rest) ==
    IF rest = <<>> THEN done
    ELSE LET c == Head(rest) IN
         IF c = "" \/ c = "." THEN NormInto(done, Tail(rest))
         ELSE IF c = ".."
              THEN IF done # <<>> /\ done[Len(done)] # ".."
                   THEN NormInto(SubSeq(done, 1, Len(done) - 1), Tail(rest))
                   ELSE NormInto(Append(done, ".."), Tail(rest))
              ELSE NormInto(Append(done, c), Tail(rest))

NormPath(p) == NormInto(<<>>, p)

\* os.path.relpath(path, out_dir)
RelPath(p) ==
    LET n == NormPath(p)
        o == NormPath(out_dir)
    IN  IF Len(n) >= Len(o) /\ SubSeq(n, 1, Len(o)) = o
        THEN IF Len(n) = Len(o) THEN <<".">> ELSE SubSeq(n, Len(o) + 1, Len(n))
        ELSE [i \in 1..Len(o) |-> ".."] \o n

RECURSIVE SplitOn(_, _, _)
\* str.split(sep) over tokens: the pieces between the separators
SplitOn(s, sep, cur) ==
    IF s = <<>> THEN <<cur>>
    ELSE IF Head(s) = sep THEN <<cur>> \o SplitOn(Tail(s), sep, <<>>)
    ELSE SplitOn(Tail(s), sep, Append(cur, Head(s)))

\* A key's "/"-delimited segments; a segment is one token, "" when two
\* separators are adjacent
KeyParts(key) ==
    LET pieces == SplitOn(key, "/", <<>>)
    IN  [i \in 1..Len(pieces) |-> IF pieces[i] = <<>> THEN "" ELSE pieces[i][1]]

\* save_image_locally: the path the image is written to
save_image_path(key) ==
    LET images_dir == out_dir \o <<"images">>
        key_parts  == KeyParts(key)
    IN  IF Len(key_parts) > 1
        THEN (images_dir \o SubSeq(key_parts, 1, Len(key_parts) - 1))
                 \o <<key_parts[Len(key_parts)]>>
        ELSE images_dir \o key_parts

\* save_image_locally: the returned relative path (no "./" prefix)
save_image_locally(key) == RelPath(save_image_path(key))

\* compute_local_image_paths with the key's directories left out of the
\* checked path
compute_local_image_paths_flat(key) ==
    LET images_dir == out_dir \o <<"images">>
        key_parts  == KeyParts(key)
        abs_path   == images_dir \o <<key_parts[Len(key_parts)]>>
        rel        == RelPath(abs_path)
    IN  [abs_path |-> abs_path,
         rel_path |-> IF Len(rel) >= 2 /\ rel[1] = "." THEN rel ELSE <<".">> \o rel]

\* compute_local_image_paths: (abs_path, rel_path with "./" prefix)
compute_local_image_paths(key) ==
    LET images_dir == out_dir \o <<"images">>
        key_parts  == KeyParts(key)
        abs_path   == IF Len(key_parts) > 1
                      THEN (images_dir \o SubSeq(key_parts, 1, Len(key_parts) - 1))
                               \o <<key_parts[Len(key_parts)]>>
                      ELSE images_dir \o key_parts
        rel        == RelPath(abs_path)
    IN  [abs_path |-> abs_path,
         rel_path |-> IF Len(rel) >= 2 /\ rel[1] = "." THEN rel ELSE <<".">> \o rel]

IsPrefix(p, s) == Len(p) <= Len(s) /\ SubSeq(s, 1, Len(p)) = p

\* os.path.exists: a file is there, or a directory that holds one
path_exists(p, imgs) == \E f \in imgs : IsPrefix(NormPath(p), f)

(***************************************************************************)
(* Image resolver inside generate_article_markdown                         *)
(*                                                                         *)
(* A matched URL is its tail after the host (group 2 of s3_url_pattern), a *)
(* token sequence such as <<"a", "/", "b.png", "?", "1">>.  A piece of the *)
(* rendered body is [loc, rest]: loc the local path put in front (<<>>     *)
(* while the reference is still remote) and rest what is left of the tail. *)
(***************************************************************************)
\* full_tail.split('?', 1)[0]
KeyOf(full_tail) == SplitOn(full_tail, "?", <<>>)[1]

RemotePiece(full_tail) == [loc |-> <<>>, rest |-> full_tail]

LocalPiece(rel) == [loc |-> rel, rest |-> <<>>]

\* download_s3_image_via_lambda: TRUE when image bytes come back, FALSE for
\* None (status other than 200, content type without "image", timeout or
\* other exception).  avail tells how the proxy answers for each key during
\* the run: "up" serves it, "down" never does, "late" fails the first
\* request of the run for the key and serves the later ones.  fetched lists
\* the requests the run has made so far.
download_s3_image_via_lambda(key, avail, fetched) ==
    \/ avail[key] = "up"
    \/ avail[key] = "late" /\ \E j \in 1..Len(fetched) : fetched[j].key = key

\* s3_url_mapping[original_url] after a failed download
failed_mapping(original_url, rel_path) == RemotePiece(original_url)

\* One iteration of "for m in matches" (lines 722-746).  rs holds
\* s3_url_mapping in insertion order, the image files and the fetches made;
\* fetched lists the fetches the run made before this document.
resolve_match(rs, original_url, avail, fetched) ==
    Only({
        IF \E j \in 1..Len(rs.mapping) : rs.mapping[j].orig = original_url
        THEN rs
        ELSE IF path_exists(paths.abs_path, rs.images)
        THEN [rs EXCEPT !.mapping =
                 Append(@, [orig |-> original_url, to |-> LocalPiece(paths.rel_path),
                            how |-> "reuse"])]
        ELSE IF download_s3_image_via_lambda(key, avail, fetched \o rs.attempts)
        THEN LET saved_rel == save_image_locally(key)
                 rel_final == IF Len(saved_rel) >= 2 /\ saved_rel[1] = "."
                              THEN saved_rel ELSE <<".">> \o saved_rel
             IN  [mapping  |-> Append(rs.mapping,
                                 [orig |-> original_url, to |-> LocalPiece(rel_final),
                                  how |-> "saved"]),
                  images   |-> rs.images \cup {NormPath(save_image_path(key))},
                  attempts |-> Append(rs.attempts, [key |-> key, ok |-> TRUE])]
        ELSE [mapping  |-> Append(rs.mapping,
                             [orig |-> original_url,
                              to |-> failed_mapping(original_url, paths.rel_path),
                              how |-> "failed"]),
              images   |-> rs.images,
              attempts |-> Append(rs.attempts, [key |-> key, ok |-> FALSE])]
        : key \in {KeyOf(original_url)},
          paths \in {compute_local_image_paths(KeyOf(original_url))} })

RECURSIVE resolve_matches(_, _, _, _)
resolve_matches(rs, matches, avail, fetched) ==
    IF matches = <<>> THEN rs
    ELSE Only({resolve_matches(r, Tail(matches), avail, fetched) :
                 r \in {resolve_match(rs, Head(matches), avail, fetched)}})

\* parsed_content.replace(original_url, local_path) on one piece: every
\* occurrence of the URL text is replaced, also where a longer URL starts
\* with it
replace_in_piece(piece, entry) ==
    IF piece.loc = <<>> /\ entry.to.loc # <<>> /\ IsPrefix(entry.orig, piece.rest)
    THEN [loc  |-> entry.to.loc,
          rest |-> SubSeq(piece.rest, Len(entry.orig) + 1, Len(piece.rest))]
    ELSE piece

RECURSIVE replace_urls(_, _)
\* for original_url, local_path in s3_url_mapping.items(): ... (lines 750-751)
replace_urls(pieces, mapping) ==
    IF mapping = <<>> THEN pieces
    ELSE Only({replace_urls(replaced, Tail(mapping)) :
                 replaced \in {[i \in 1..Len(pieces) |->
                                  replace_in_piece(pieces[i], Head(mapping))]}})

\* generate_article_markdown(article, out_dir): the document, with the image
\* files and fetches its resolver leaves behind.  article.body lists the
\* image URLs of the rendered content in text order.
generate_article_markdown(article, imgs, avail, fetched) ==
    Only({
        [doc      |-> [title |-> article.title,
                       id    |-> article.id,
                       date  |-> format_date(article.last_edited_date),
                       body  |-> replace_urls(
                                     [i \in 1..Len(article.body) |->
                                         RemotePiece(article.body[i])],
                                     rs.mapping)],
         images   |-> rs.images,
         attempts |-> rs.attempts,
         mapping  |-> rs.mapping]
        : rs \in {resolve_matches(
                     [mapping |-> <<>>, images |-> imgs, attempts |-> <<>>],
                     article.body, avail, fetched)} })

(***************************************************************************)
(* Identity lookup over the .md files of the output directory              *)
(*                                                                         *)
(* dir maps a file name <<date_prefix, slug>> to the document it holds.    *)
(* A document holds an ID marker line iff its id field is not empty.       *)
(***************************************************************************)
\* line.replace('- **ID**: ', '').strip() on the first ID marker line of a
\* file: <<id>>, or <<>> when the file has no such line
marker_id(doc) ==
    IF doc.id # <<>> THEN <<StripChars(doc.id, Whitespace)>> ELSE <<>>

get_existing_article_ids(d) ==
    {marker_id(d[f])[1] : f \in {g \in DOMAIN d : marker_id(d[g]) # <<>>}}

\* get_existing_article_content: the values the call may return, <<>> for
\* None.  The first file of os.listdir whose marker matches wins, and the
\* listing order is arbitrary, so any matching file may be the one returned.
get_existing_article_content(d, article_id) ==
    IF article_id = <<>> THEN {<<>>}
    ELSE LET hits == {f \in DOMAIN d : marker_id(d[f]) = <<article_id>>}
         IN  IF hits = {} THEN {<<>>} ELSE {<<d[f]>> : f \in hits}

DigitOf(i) == <<"0", "1", "2", "3", "4", "5", "6", "7", "8", "9">>[i + 1]

\* f"article-{i}" for the positions the model reaches (i < 10)
PositionalSlug(i) == <<"a", "r", "t", "i", "c", "l", "e", "-", DigitOf(i)>>

\* filename = f"{date_prefix}-{slug}.md" (lines 893-896)
article_filename(i, article) ==
    LET slug == IF slugify(article.title) # <<>>
                THEN slugify(article.title) ELSE PositionalSlug(i)
    IN  <<format_date_for_filename(article.last_edited_date), slug>>

\* is_new = article_id not in existing_ids if article_id else True
is_new_article(article, existing_ids) ==
    IF article.id # <<>> THEN article.id \notin existing_ids ELSE TRUE

\* open(article_path, 'w').write(article_md)
write_file(d, filename, doc) ==
    [f \in DOMAIN d \cup {filename} |-> IF f = filename THEN doc ELSE d[f]]

\* if is_new or content_changed: (line 917)
should_write(is_new, content_changed) == is_new \/ content_changed

(***************************************************************************)
(* convert_json_to_markdown, first loop (lines 883-920).  A loop state st  *)
(* holds the directory, the image files, and what the loop has observed    *)
(* per article.  One iteration yields the set of states it can end in.     *)
(***************************************************************************)
process_article(st, i, article, existing_ids, avail) ==
    LET is_new   == is_new_article(article, existing_ids)
        filename == article_filename(i, article)
        found    == IF is_new THEN {<<>>}
                    ELSE get_existing_article_content(st.dir, article.id)
    IN  { LET content_changed == IF is_new THEN TRUE ELSE existing_content # <<gen.doc>>
              written         == should_write(is_new, content_changed)
          IN  [dir      |-> IF written THEN write_file(st.dir, filename, gen.doc)
                            ELSE st.dir,
               images   |-> gen.images,
               attempts |-> st.attempts \o gen.attempts,
               classes  |-> Append(st.classes,
                                   IF is_new THEN "new"
                                   ELSE IF content_changed THEN "updated"
                                   ELSE "unchanged"),
               wrote    |-> Append(st.wrote, written),
               files    |-> Append(st.files, filename),
               docs     |-> Append(st.docs, gen.doc),
               found    |-> Append(st.found, existing_content),
               maps     |-> Append(st.maps, gen.mapping)]
          : existing_content \in found,
            gen \in {generate_article_markdown(article, st.images, avail, st.attempts)} }

RECURSIVE process_articles(_, _, _, _, _)
process_articles(states, i, articles, existing_ids, avail) ==
    IF i > Len(articles) THEN states
    ELSE process_articles(
             UNION {process_article(st, i, articles[i], existing_ids, avail) : st \in states},
             i + 1, articles, existing_ids, avail)

CountOf(classes, c) == Cardinality({i \in 1..Len(classes) : classes[i] = c})

(***************************************************************************)
(* The change log log.md: a sequence of lines                              *)
(***************************************************************************)
LogLine(kind, n, title, file, date) ==
    [kind |-> kind, n |-> n, title |-> title, file |-> file, date |-> date]

\* new_log_entry (lines 930-937); current_time is the run's wall-clock time
new_log_entry(current_time, total, new_count, updated_count) ==
    <<LogLine("entry", current_time, <<>>, <<>>, ""),
      LogLine("total", total, <<>>, <<>>, ""),
      LogLine("new_count", new_count, <<>>, <<>>, ""),
      LogLine("updated_count", updated_count, <<>>, <<>>, ""),
      LogLine("blank", 0, <<>>, <<>>, "")>>

\* "- [{title}]({filename}) - {author_line} ({format_date(last_edited)})"
item_line(kind, i, article) ==
    LogLine(kind, i, article.title, article_filename(i, article),
            format_date(article.last_edited_date))

RECURSIVE new_items(_, _, _)
\* lines 946-962: one link per article with is_new
new_items(i, articles, existing_ids) ==
    IF i > Len(articles) THEN <<>>
    ELSE (IF is_new_article(articles[i], existing_ids)
          THEN <<item_line("new_item", i, articles[i])>> ELSE <<>>)
         \o new_items(i + 1, articles, existing_ids)

\* lines 968-990, one iteration: the article is compared again, against the
\* directory as the first loop left it and a freshly generated document
updated_item(ls, i, article, d, existing_ids, avail, fetched) ==
    IF is_new_article(article, existing_ids) THEN {ls}
    ELSE { [lines    |-> IF existing_content # <<gen.doc>>
                         THEN Append(ls.lines, item_line("updated_item", i, article))
                         ELSE ls.lines,
            images   |-> gen.images,
            attempts |-> ls.attempts \o gen.attempts,
            maps     |-> Append(ls.maps, gen.mapping)]
           : existing_content \in get_existing_article_content(d, article.id),
             gen \in {generate_article_markdown(article, ls.images, avail,
                                                fetched \o ls.attempts)} }

RECURSIVE updated_items(_, _, _, _, _, _, _)
updated_items(states, i, articles, d, existing_ids, avail, fetched) ==
    IF i > Len(articles) THEN states
    ELSE updated_items(
             UNION {updated_item(ls, i, articles[i], d, existing_ids, avail, fetched) :
                      ls \in states},
             i + 1, articles, d, existing_ids, avail, fetched)

\* lines 939-992: the sections that follow new_log_entry.  The result is the
\* set of [lines, images, attempts, maps] the code can end with.
log_sections(st, articles, existing_ids, avail) ==
    LET new_count     == CountOf(st.classes, "new")
        updated_count == CountOf(st.classes, "updated")
        blank         == LogLine("blank", 0, <<>>, <<>>, "")
        new_section   ==
            IF new_count > 0
            THEN <<LogLine("new_section", 0, <<>>, <<>>, "")>>
                     \o new_items(1, articles, existing_ids) \o <<blank>>
            ELSE <<>>
        start ==
            [lines    |-> new_section,
             images   |-> st.images,
             attempts |-> <<>>,
             maps     |-> <<>>]
    IN  IF updated_count > 0
        THEN { [ls EXCEPT !.lines = Append(@, blank)] :
                 ls \in updated_items(
                     {[start EXCEPT !.lines =
                          Append(@, LogLine("updated_section", 0, <<>>, <<>>, ""))]},
                     1, articles, st.dir, existing_ids, avail, st.attempts) }
        ELSE {start}

\* f.readlines() of log.md, [] when the file does not exist
read_log(log_file) == log_file

\* all_lines without the extend by existing_log_lines
all_lines_without_history(entry, existing_log_lines) == entry

\* all_lines: the new entry, then existing_log_lines (lines 940-996)
all_lines(entry, existing_log_lines) == entry \o existing_log_lines

(***************************************************************************)
(* The export the run reads                                                *)
(***************************************************************************)
KeysOf(article) == {KeyOf(article.body[i]) : i \in 1..Len(article.body)}

\* The "topics" lists an export of the pool can hold: any selection of the
\* pool's articles in any order
Exports(pool) ==
    {s \in UNION {[1..n -> pool] : n \in 0..Cardinality(pool)} :
        \A i, j \in 1..Len(s) : i # j => s[i] # s[j]}

\* How the image proxy may answer during one run, for each key of the pool
Availabilities(pool) == [UNION {KeysOf(a) : a \in pool} -> {"up", "down", "late"}]

(***************************************************************************)
(* Article pools: what the export API can serve.  Ids, titles and dates    *)
(* are raw field values of the JSON.                                       *)
(***************************************************************************)
\* content_raises tells whether rendering the article's content raises, as
\* a heading whose level is a string does ('#' * level, line 327).
Article(id, title, last_edited_date, body) ==
    [id |-> id, title |-> title, last_edited_date |-> last_edited_date, body |-> body,
     content_raises |-> FALSE]

Day1 == "2025-09-19"

Day2 == "2025-09-20T08:00:00.000Z"

\* One identity under two file names, and a second identity whose file
\* name collides with one of them
PoolRename ==
    {Article(<<"x">>, <<"A">>, Day1, <<>>),
     Article(<<"x">>, <<"B">>, Day1, <<>>),
     Article(<<"y">>, <<"B">>, Day1, <<>>)}

\* One identity under two titles with the same slug, and on a second edit
\* date
PoolEdit ==
    {Article(<<"x">>, <<"A">>, Day1, <<>>),
     Article(<<"x">>, <<"a", "!">>, Day1, <<>>),
     Article(<<"x">>, <<"A">>, Day2, <<>>)}

\* No id with a title that has an empty slug, and an id with trailing
\* whitespace next to the same id without it
PoolEdge ==
    {Article(<<>>, <<"!">>, Day1, <<>>),
     Article(<<"x", " ">>, <<"B">>, Day1, <<>>),
     Article(<<"x">>, <<"A">>, Day1, <<>>)}

KeyAB == <<"a", "/", "b.png">>

\* Image references to one key: under two signatures, and with a query
\* string before and after the reference without one
PoolImages ==
    {Article(<<"x">>, <<"A">>, Day1, <<KeyAB \o <<"?", "1">>, KeyAB \o <<"?", "2">>>>),
     Article(<<"y">>, <<"B">>, Day1, <<KeyAB \o <<"?", "1">>, KeyAB>>),
     Article(<<"x">>, <<"A">>, Day1, <<KeyAB, KeyAB \o <<"?", "2">>>>)}

Pools == {PoolRename, PoolEdit, PoolEdge, PoolImages}

\* An article whose content raises while it is rendered, between two
\* articles that render, the first with an image
PoolFault ==
    {Article(<<"x">>, <<"A">>, Day1, <<KeyAB>>),
     [Article(<<"y">>, <<"B">>, Day1, <<>>) EXCEPT !.content_raises = TRUE],
     Article(<<"z">>, <<"C">>, Day1, <<>>)}

\* What may be found at input_path: no file, a file that is not JSON, or an
\* export of the pool
InputFiles(pool) ==
    {[kind |-> "missing", topics |-> <<>>], [kind |-> "invalid", topics |-> <<>>]}
        \cup {[kind |-> "json", topics |-> s] : s \in Exports(pool)}

\* A load_payload that reads a missing or malformed file as an empty export
load_payload_lenient(file) == [raised |-> "none", data |-> file.topics]

\* load_payload(path): open raises FileNotFoundError, json.load raises
\* JSONDecodeError, else the parsed export
load_payload(file) ==
    IF file.kind = "missing" THEN [raised |-> "FileNotFoundError", data |-> <<>>]
    ELSE IF file.kind = "invalid" THEN [raised |-> "JSONDecodeError", data |-> <<>>]
    ELSE [raised |-> "none", data |-> file.topics]

(***************************************************************************)
(* State                                                                   *)
(*   source  the pool the export is drawn from                             *)
(*   dir     the .md files of the output directory                         *)
(*   images  the image files, as normalised paths                          *)
(*   log     the lines of log.md                                           *)
(*   runs    completed runs; also the clock of the log entries             *)
(*   last    what the last run read, decided and did                       *)
(*   prev    the export and availability of the run before the last        *)
(*   relOf   <<key, local path>> for every resolution that returned a      *)
(*           local path                                                    *)
(*   ret     the last call of convert_json_to_markdown: its number, the    *)
(*           input file it was given, what it returned, how many articles  *)
(*           its loop completed, and the files it found when it started    *)
(*   input   the argument of a function that is applied on its own         *)
(*   output  <<>>, or <<result>> once the function has been applied        *)
(***************************************************************************)
NoRun ==
    [input |-> <<>>, avail |-> <<>>, existing_ids |-> {}, classes |-> <<>>,
     wrote |-> <<>>, files |-> <<>>, docs |-> <<>>, found |-> <<>>,
     maps |-> <<>>, attempts |-> <<>>, log_maps |-> <<>>, log_attempts |-> <<>>,
     entry |-> <<>>, dirBefore |-> <<>>, imagesBefore |-> {}, logBefore |-> <<>>]

NoCall ==
    [call |-> 0, file |-> "none", success |-> FALSE, new_count |-> 0,
     raised |-> "none", completed |-> 0, total |-> 0, attempts |-> <<>>,
     dirBefore |-> <<>>, imagesBefore |-> {}, logBefore |-> <<>>]

\* Nothing converted yet: no output directory, no log.md
Fresh ==
    /\ dir = <<>>
    /\ images = {}
    /\ log = <<>>
    /\ runs = 0
    /\ last = NoRun
    /\ prev = [input |-> <<>>, avail |-> <<>>]
    /\ relOf = {}
    /\ ret = NoCall

\* No function applied on its own
Idle == input = <<>> /\ output = <<>>

Init == source \in Pools /\ Fresh /\ Idle

LocalResolutions(maps) ==
    UNION {{<<KeyOf(maps[i][j].orig), maps[i][j].to.loc>> :
               j \in {k \in 1..Len(maps[i]) : maps[i][k].how # "failed"}} :
           i \in 1..Len(maps)}

\* The first loop's state before its first iteration
loop_start ==
    [dir |-> dir, images |-> images, attempts |-> <<>>,
     classes |-> <<>>, wrote |-> <<>>, files |-> <<>>,
     docs |-> <<>>, found |-> <<>>, maps |-> <<>>]

\* What a call leaves in ret
Returned(file, success, new_count, raised, completed, total, attempts) ==
    [call |-> ret.call + 1, file |-> file.kind, success |-> success,
     new_count |-> new_count, raised |-> raised, completed |-> completed,
     total |-> total, attempts |-> attempts,
     dirBefore |-> dir, imagesBefore |-> images, logBefore |-> log]

\* convert_json_to_markdown(input_path, out_dir) on an export that loads and
\* whose articles all render (lines 862-1037)
convert_json_to_markdown(file, articles, avail) ==
    \E existing_ids \in {get_existing_article_ids(dir)} :
    \E st \in process_articles({loop_start}, 1, articles, existing_ids, avail) :
    \E ls \in log_sections(st, articles, existing_ids, avail) :
    \E entry \in {new_log_entry(runs + 1, Len(articles),
                                CountOf(st.classes, "new"),
                                CountOf(st.classes, "updated")) \o ls.lines} :
        /\ dir' = st.dir
        /\ images' = ls.images
        /\ log' = all_lines(entry, read_log(log))
        /\ runs' = runs + 1
        /\ last' = [input |-> articles, avail |-> avail,
                    existing_ids |-> existing_ids,
                    classes |-> st.classes, wrote |-> st.wrote,
                    files |-> st.files, docs |-> st.docs,
                    found |-> st.found, maps |-> st.maps,
                    attempts |-> st.attempts,
                    log_maps |-> ls.maps, log_attempts |-> ls.attempts,
                    entry |-> entry, dirBefore |-> dir,
                    imagesBefore |-> images, logBefore |-> log]
        /\ prev' = [input |-> last.input, avail |-> last.avail]
        /\ relOf' = relOf \cup LocalResolutions(st.maps) \cup LocalResolutions(ls.maps)
        /\ ret' = Returned(file, TRUE, CountOf(st.classes, "new"), "none",
                           Len(articles), Len(articles),
                           st.attempts \o ls.attempts)
        /\ UNCHANGED <<source, input, output>>

\* The call when load_payload raises (line 865): the except clauses of
\* lines 1039-1044 return (False, 0)
convert_input_error(file, raised) ==
    /\ ret' = Returned(file, FALSE, 0, raised, 0, 0, <<>>)
    /\ UNCHANGED <<source, dir, images, log, runs, last, prev, relOf, input, output>>

\* The call when generate_article_markdown raises for article k (line 899):
\* the loop has completed k - 1 iterations, and the except clause of lines
\* 1045-1049 returns (False, 0)
convert_article_error(file, articles, k, avail) ==
    \E existing_ids \in {get_existing_article_ids(dir)} :
    \E st \in process_articles({loop_start}, 1, SubSeq(articles, 1, k - 1),
                               existing_ids, avail) :
        /\ dir' = st.dir
        /\ images' = st.images
        /\ relOf' = relOf \cup LocalResolutions(st.maps)
        /\ ret' = Returned(file, FALSE, 0, "Exception", k - 1, Len(articles),
                           st.attempts)
        /\ UNCHANGED <<source, log, runs, last, prev, input, output>>

\* A call that runs to its return True
Run ==
    /\ ret.call < MaxRuns
    /\ \E file \in InputFiles(source), avail \in Availabilities(source) :
       \E loaded \in {load_payload(file)} :
           /\ loaded.raised = "none"
           /\ \A i \in 1..Len(loaded.data) : ~loaded.data[i].content_raises
           /\ convert_json_to_markdown(file, loaded.data, avail)

\* A call whose input does not load
RunInputError ==
    /\ ret.call < MaxRuns
    /\ \E file \in InputFiles(source) :
       \E loaded \in {load_payload(file)} :
           /\ loaded.raised # "none"
           /\ convert_input_error(file, loaded.raised)

\* A call in which an article raises
RunArticleError ==
    /\ ret.call < MaxRuns
    /\ \E file \in InputFiles(source), avail \in Availabilities(source) :
       \E loaded \in {load_payload(file)} :
           /\ loaded.raised = "none"
           /\ \E k \in 1..Len(loaded.data) :
                  /\ loaded.data[k].content_raises
                  /\ \A j \in 1..(k - 1) : ~loaded.data[j].content_raises
                  /\ convert_article_error(file, loaded.data, k, avail)

Next == Run

Spec == Init /\ [][Next]_vars

\* Calls on inputs that may fail to load or hold an article that raises
InitFaults == source = PoolFault /\ Fresh /\ Idle

NextFaults == Run \/ RunInputError \/ RunArticleError

SpecFaults == InitFaults /\ [][NextFaults]_vars

(***************************************************************************)
(* Rich text rendering (parse_content and the convert_*_to_markdown         *)
(* functions).  A string is a sequence of tokens: the delimiters the code   *)
(* emits ("**", "[", "\n", ...) and the characters or words of the texts.   *)
(* A node is a record of the keys the code reads; has_content tells         *)
(* whether the node has a 'content' key, start is <<>> when attrs has no    *)
(* 'start'.                                                                 *)
(***************************************************************************)
Node(type, content) ==
    [type |-> type, text |-> <<>>, marks |-> <<>>, has_content |-> TRUE,
     content |-> content, start |-> <<>>, level |-> 1]

\* A node without a 'content' key
Leaf(type) == [Node(type, <<>>) EXCEPT !.has_content = FALSE]

TextNode(text, marks) ==
    [Leaf("text") EXCEPT !.text = text, !.marks = marks]

Mark(type, href) == [type |-> type, href |-> href]

\* str.strip() leaves nothing
IsBlank(s) == \A i \in 1..Len(s) : s[i] \in Whitespace

RECURSIVE Join(_, _)
\* sep.join(parts)
Join(parts, sep) ==
    IF parts = <<>> THEN <<>>
    ELSE IF Len(parts) = 1 THEN parts[1]
    ELSE parts[1] \o sep \o Join(Tail(parts), sep)

\* str(n) for the numbers the model reaches (n < 100)
Num(n) == IF n < 10 THEN <<DigitOf(n)>> ELSE <<DigitOf(n \div 10), DigitOf(n % 10)>>

\* The grave accent that wraps inline code, and the three of them that fence
\* a code block, as tokens
Backtick == "BACKTICK"

Fence == "FENCE"

\* One pass of "for mark in marks" (lines 297-310)
apply_mark(text, mark) ==
    IF mark.type = "bold" THEN <<"**">> \o text \o <<"**">>
    ELSE IF mark.type = "italic" THEN <<"*">> \o text \o <<"*">>
    ELSE IF mark.type = "code" THEN <<Backtick>> \o text \o <<Backtick>>
    ELSE IF mark.type = "link" THEN <<"[">> \o text \o <<"]", "(">> \o mark.href \o <<")">>
    ELSE IF mark.type = "strike" THEN <<"~~">> \o text \o <<"~~">>
    ELSE text

RECURSIVE apply_marks(_, _)
apply_marks(text, marks) ==
    IF marks = <<>> THEN text
    ELSE apply_marks(apply_mark(text, Head(marks)), Tail(marks))

convert_text_node_to_markdown(node) ==
    IF node.type # "text" THEN <<>> ELSE apply_marks(node.text, node.marks)

convert_paragraph_to_markdown(node) ==
    IF ~node.has_content THEN <<>>
    ELSE Only({Join(text_parts, <<>>) :
                 text_parts \in {[i \in 1..Len(node.content) |->
                                    convert_text_node_to_markdown(node.content[i])]}})

convert_heading_to_markdown(node) ==
    IF ~node.has_content THEN <<>>
    ELSE [i \in 1..node.level |-> "#"] \o <<" ">>
             \o convert_paragraph_to_markdown(node)

convert_code_block_to_markdown(node) ==
    IF ~node.has_content THEN <<>>
    ELSE Only({<<Fence, "\n">> \o Join(text_parts, <<>>) \o <<"\n", Fence>> :
                 text_parts \in {[i \in 1..Len(node.content) |->
                                    IF node.content[i].type = "text"
                                    THEN node.content[i].text ELSE <<>>]}})

\* The segments of a rendered table row that are not blank (line 439)
col_count(first_row) ==
    Only({Cardinality({i \in 1..Len(cols) : ~IsBlank(cols[i])}) :
            cols \in {SplitOn(first_row, "|", <<>>)}})

\* table_rows.insert(1, separator) (lines 436-441)
with_separator(table_rows) ==
    LET separator == <<"|", " ">>
                        \o Join([i \in 1..col_count(table_rows[1]) |-> <<"---">>],
                                <<" ", "|", " ">>)
                        \o <<" ", "|">>
    IN  <<table_rows[1], separator>> \o Tail(table_rows)

RECURSIVE convert_node_to_markdown(_)
RECURSIVE convert_to_markdown(_)
RECURSIVE convert_list_item_to_markdown(_)
RECURSIVE convert_table_cell_to_markdown(_)

\* convert_to_markdown: children that render blank are left out, the rest
\* joined by a blank line
convert_to_markdown(content_obj) ==
    IF ~content_obj.has_content THEN <<>>
    ELSE Only({Join(SelectSeq(items, LAMBDA s : ~IsBlank(s)), <<"\n", "\n">>) :
                 items \in {[i \in 1..Len(content_obj.content) |->
                               convert_node_to_markdown(content_obj.content[i])]}})

convert_bullet_list_to_markdown(node) ==
    IF ~node.has_content THEN <<>>
    ELSE Only({Join([j \in 1..Len(SelectSeq(items, LAMBDA s : ~IsBlank(s))) |->
                        <<"-", " ">> \o SelectSeq(items, LAMBDA s : ~IsBlank(s))[j]],
                    <<"\n">>) :
                 items \in {[i \in 1..Len(node.content) |->
                               IF node.content[i].type = "listItem"
                               THEN convert_list_item_to_markdown(node.content[i])
                               ELSE <<>>]}})

\* item_number = start_num + i with i the child's index from 0 (line 362)
convert_ordered_list_to_markdown(node) ==
    IF ~node.has_content THEN <<>>
    ELSE LET start_num == IF node.start = <<>> THEN 1 ELSE node.start[1]
         IN  Only({Join(SelectSeq([i \in 1..Len(items) |->
                                     IF IsBlank(items[i]) THEN <<>>
                                     ELSE Num(start_num + (i - 1)) \o <<".", " ">>
                                              \o items[i]],
                                  LAMBDA s : s # <<>>),
                        <<"\n">>) :
                     items \in {[i \in 1..Len(node.content) |->
                                   IF node.content[i].type = "listItem"
                                   THEN convert_list_item_to_markdown(node.content[i])
                                   ELSE <<>>]}})

convert_list_item_to_markdown(node) ==
    IF ~node.has_content THEN <<>>
    ELSE Only({Join(text_parts, <<" ">>) :
                 text_parts \in {[i \in 1..Len(node.content) |->
                                    IF node.content[i].type = "paragraph"
                                    THEN convert_paragraph_to_markdown(node.content[i])
                                    ELSE convert_node_to_markdown(node.content[i])]}})

convert_blockquote_to_markdown(node) ==
    IF ~node.has_content THEN <<>>
    ELSE Only({<<">", " ">> \o Join(text_parts, <<"\n">>) :
                 text_parts \in {[i \in 1..Len(node.content) |->
                                    convert_node_to_markdown(node.content[i])]}})

convert_table_cell_to_markdown(cell) ==
    IF ~cell.has_content THEN <<>>
    ELSE Only({Join(text_parts, <<" ">>) :
                 text_parts \in {[i \in 1..Len(cell.content) |->
                                    IF cell.content[i].type = "paragraph"
                                    THEN convert_paragraph_to_markdown(cell.content[i])
                                    ELSE convert_node_to_markdown(cell.content[i])]}})

\* One table row: its tableCell children rendered; <<>> for a child that is
\* not a tableRow or has no tableCell (lines 423-432)
convert_table_row(row) ==
    IF row.type # "tableRow" THEN <<>>
    ELSE Only({IF row_cells = <<>> THEN <<>>
               ELSE <<"|", " ">> \o Join(row_cells, <<" ", "|", " ">>) \o <<" ", "|">> :
                 row_cells \in {[j \in 1..Len(SelectSeq(row.content,
                                                        LAMBDA c : c.type = "tableCell")) |->
                                   convert_table_cell_to_markdown(
                                       SelectSeq(row.content,
                                                 LAMBDA c : c.type = "tableCell")[j])]}})

convert_table_to_markdown(node) ==
    IF ~node.has_content THEN <<>>
    ELSE Only({IF table_rows = <<>> THEN <<>>
               ELSE Join(with_separator(table_rows), <<"\n">>) :
                 table_rows \in {SelectSeq([i \in 1..Len(node.content) |->
                                              convert_table_row(node.content[i])],
                                           LAMBDA r : r # <<>>)}})

\* image and imageResize: f"![]({src})", src being the node's text here
convert_image_to_markdown(node) == <<"![](">> \o node.text \o <<")">>

convert_node_to_markdown(node) ==
    IF node.type = "paragraph" THEN convert_paragraph_to_markdown(node)
    ELSE IF node.type = "heading" THEN convert_heading_to_markdown(node)
    ELSE IF node.type = "bulletList" THEN convert_bullet_list_to_markdown(node)
    ELSE IF node.type = "orderedList" THEN convert_ordered_list_to_markdown(node)
    ELSE IF node.type = "listItem" THEN convert_list_item_to_markdown(node)
    ELSE IF node.type = "blockquote" THEN convert_blockquote_to_markdown(node)
    ELSE IF node.type = "codeBlock" THEN convert_code_block_to_markdown(node)
    ELSE IF node.type = "table" THEN convert_table_to_markdown(node)
    ELSE IF node.type \in {"image", "imageResize"} THEN convert_image_to_markdown(node)
    ELSE IF node.type = "horizontalRule" THEN <<"---">>
    ELSE IF node.has_content THEN convert_to_markdown(node)
    ELSE <<>>

\* parse_content on a dict (line 214)
parse_content(content_data) == convert_to_markdown(content_data)

(***************************************************************************)
(* Rendering applied on its own to bounded rich text                        *)
(***************************************************************************)
\* Bounds of the rich text: marks on a text node, children of a list or
\* container, rows of a table and cells of a row
MaxMarks == 2

MaxChildren == 3

MaxRows == 2

MaxCells == 2

\* Sequences over S of length at most n
SeqsUpTo(S, n) == UNION {[1..k -> S] : k \in 0..n}

MarkKinds ==
    {Mark("bold", <<>>), Mark("italic", <<>>), Mark("code", <<>>),
     Mark("strike", <<>>), Mark("link", <<"x">>)}

Para(text) == Node("paragraph", <<TextNode(text, <<>>)>>)

\* A paragraph of one marked text
MarkedParagraphs ==
    {Node("paragraph", <<TextNode(<<"t">>, marks)>>) : marks \in SeqsUpTo(MarkKinds, MaxMarks)}

\* Children of an ordered list: an item, an item that renders empty, and a
\* child that is not a listItem
ListChildren ==
    {Node("listItem", <<Para(<<"a">>)>>), Node("listItem", <<>>), Para(<<"p">>)}

OrderedLists ==
    {[Node("orderedList", children) EXCEPT !.start = start] :
        children \in SeqsUpTo(ListChildren, MaxChildren), start \in {<<>>, <<3>>}}

\* Children of a container: a paragraph, a paragraph that renders empty, a
\* node of unknown kind without content, and a text node
ContainerChildren ==
    {Para(<<"a">>), Node("paragraph", <<>>), Leaf("mystery"), TextNode(<<"t">>, <<>>)}

\* A tableCell as the only cell of the only row of a table
InTable(cell) == Node("table", <<Node("tableRow", <<cell>>)>>)

Containers ==
    UNION {{Node("doc", children), Node("section", children),
            Node("blockquote", children), Node("listItem", children),
            InTable(Node("tableCell", children))} :
           children \in SeqsUpTo(ContainerChildren, MaxChildren - 1)}

\* Cells: a word, another, an empty cell, a cell of two lines, and a child
\* of a row that is not a cell
RowChildren ==
    {Node("tableCell", <<Para(<<"A">>)>>), Node("tableCell", <<Para(<<"B">>)>>),
     Node("tableCell", <<>>),
     Node("tableCell", <<Node("bulletList", <<Node("listItem", <<Para(<<"A">>)>>),
                                               Node("listItem", <<Para(<<"B">>)>>)>>)>>),
     Para(<<"p">>)}

TableChildren ==
    {Node("tableRow", cells) : cells \in SeqsUpTo(RowChildren, MaxCells)}
        \cup {Para(<<"p">>)}

Tables == {Node("table", rows) : rows \in SeqsUpTo(TableChildren, MaxRows)}

\* A node of unknown kind without content, and text nodes, on their own
BareNodes ==
    {Leaf("mystery")} \cup {TextNode(<<"t">>, marks) : marks \in SeqsUpTo(MarkKinds, 1)}

RenderInputs ==
    MarkedParagraphs \cup OrderedLists \cup Containers \cup Tables \cup BareNodes

\* The variables of the conversion, which a function applied on its own
\* leaves alone
sync == <<source, dir, images, log, runs, last, prev, relOf, ret>>

InitRender ==
    /\ source = {} /\ Fresh
    /\ input \in RenderInputs
    /\ output = <<>>

\* parse_content on a document root
RenderDocument ==
    /\ output = <<>>
    /\ input.type = "doc"
    /\ output' = <<parse_content(input)>>
    /\ UNCHANGED <<sync, input>>

\* convert_node_to_markdown on a node
RenderNode ==
    /\ output = <<>>
    /\ input.type # "doc"
    /\ output' = <<convert_node_to_markdown(input)>>
    /\ UNCHANGED <<sync, input>>

NextRender == RenderDocument \/ RenderNode

SpecRender == InitRender /\ [][NextRender]_vars

(***************************************************************************)
(* slugify and the file name derived from it, applied to one title at one  *)
(* position of the input                                                   *)
(***************************************************************************)
MaxTitle == 4

MaxIndex == 2

\* A letter of each case, a digit, the underscore, the hyphen, a blank and
\* a punctuation character
SlugAlphabet == {"A", "b", "1", "_", "-", " ", "!"}

HelloWorld2024 ==
    <<"H", "e", "l", "l", "o", ",", " ", "W", "o", "r", "l", "d", "!", " ",
      "2", "0", "2", "4">>

Titles == SeqsUpTo(SlugAlphabet, MaxTitle) \cup {HelloWorld2024}

InitSlug ==
    /\ source = {} /\ Fresh
    /\ input \in [title : Titles, index : 1..MaxIndex]
    /\ output = <<>>

\* slug = slugify(title)
SlugifyTitle ==
    /\ output = <<>>
    /\ output' = <<slugify(input.title)>>
    /\ UNCHANGED <<sync, input>>

\* filename = f"{date_prefix}-{slug}.md" for the article at position index
DeriveFilename ==
    /\ Len(output) = 1
    /\ output' = Append(output,
                        article_filename(input.index,
                                         Article(<<>>, input.title, Day1, <<>>)))
    /\ UNCHANGED <<sync, input>>

NextSlug == SlugifyTitle \/ DeriveFilename

SpecSlug == InitSlug /\ [][NextSlug]_vars

(***************************************************************************)
(* The image resolver applied to one matched URL, over keys with dot and   *)
(* empty segments                                                          *)
(***************************************************************************)
MaxSegments == 3

\* Segments the URL pattern admits: names, ".", ".." and the empty segment
Segments == {"a", "b.png", ".", "..", ""}

RECURSIVE JoinSegments(_)
\* The key text whose split('/') gives the segments
JoinSegments(segs) ==
    IF Len(segs) = 1 THEN IF segs[1] = "" THEN <<>> ELSE <<segs[1]>>
    ELSE (IF Head(segs) = "" THEN <<>> ELSE <<Head(segs)>>)
             \o <<"/">> \o JoinSegments(Tail(segs))

\* Tails of matched URLs: a key, with or without a signature after it
UrlTails ==
    {JoinSegments(segs) \o q :
        segs \in SeqsUpTo(Segments, MaxSegments) \ {<<>>},
        q \in {<<>>, <<"?", "1">>}} \ {<<>>}

\* An image cached by an earlier run
CachedImage == out_dir \o <<"images", "a", "c.png">>

\* open(local_path, 'wb') raises when local_path names a directory
write_raises(key) ==
    KeyParts(key)[Len(KeyParts(key))] \in {"", ".", ".."}

InitKeys ==
    /\ source = {} /\ Fresh
    /\ input \in [url : UrlTails, cached : SUBSET {CachedImage}]
    /\ output = <<>>

\* abs_path, rel_path = compute_local_image_paths(key, out_dir)
ComputePaths ==
    /\ output = <<>>
    /\ output' = <<compute_local_image_paths(KeyOf(input.url))>>
    /\ UNCHANGED <<sync, input>>

\* The rest of the iteration for the match: reuse, or download and save
ResolveUrl ==
    /\ Len(output) = 1
    /\ path_exists(output[1].abs_path, input.cached) \/ ~write_raises(KeyOf(input.url))
    /\ output' = Append(output,
                        resolve_match([mapping |-> <<>>, images |-> input.cached,
                                       attempts |-> <<>>],
                                      input.url,
                                      [k \in {KeyOf(input.url)} |-> "up"], <<>>))
    /\ UNCHANGED <<sync, input>>

\* The image is downloaded and the write raises: no file, no mapping
ResolveUrlRaises ==
    /\ Len(output) = 1
    /\ ~path_exists(output[1].abs_path, input.cached)
    /\ write_raises(KeyOf(input.url))
    /\ output' = Append(output,
                        [mapping |-> <<>>, images |-> input.cached,
                         attempts |-> <<[key |-> KeyOf(input.url), ok |-> TRUE]>>])
    /\ UNCHANGED <<sync, input>>

NextKeys == ComputePaths \/ ResolveUrl \/ ResolveUrlRaises

SpecKeys == InitKeys /\ [][NextKeys]_vars

(***************************************************************************)
(* Properties                                                              *)
(***************************************************************************)
Articles == 1..Len(last.input)

\* Every remote fetch of the last run, in the order made: the first loop's,
\* then the log section's
RunAttempts == last.attempts \o last.log_attempts

\* Every s3_url_mapping the last run built, one per generated document
RunMaps == last.maps \o last.log_maps

EntryLines(kind) == {j \in 1..Len(last.entry) : last.entry[j].kind = kind}

\* C1: a run that repeats the export and the image availability of the run
\* before it classifies every article as unchanged and writes no article
\* file.
C1_Idempotent ==
    (runs >= 2 /\ prev.input = last.input /\ prev.avail = last.avail)
        => \A i \in Articles : last.classes[i] = "unchanged" /\ ~last.wrote[i]

\* C2: an article's file is written in a run iff the article was classified
\* new or updated, and the document an unchanged article was compared
\* against is the same in its file after the run as before it.
C2_WritePolicy ==
    \A i \in Articles :
        /\ last.wrote[i] <=> last.classes[i] \in {"new", "updated"}
        /\ last.classes[i] = "unchanged" =>
               \A f \in DOMAIN last.dirBefore :
                   <<last.dirBefore[f]>> = last.found[i] => dir[f] = last.dirBefore[f]

\* The documents persisted before the last run that carry the id of
\* article i in their ID marker line
PriorDocs(i) ==
    {last.dirBefore[f] :
        f \in {g \in DOMAIN last.dirBefore :
                 /\ last.input[i].id # <<>>
                 /\ last.dirBefore[g].id = last.input[i].id}}

\* C3: every article gets one of new / updated / unchanged; new exactly when
\* no document persisted before the run carries its id, unchanged exactly
\* when such a document is identical to the fresh one, updated exactly when
\* such documents exist and differ.
C3_Classification ==
    /\ Len(last.classes) = Len(last.input)
    /\ CountOf(last.classes, "new") + CountOf(last.classes, "updated")
           + CountOf(last.classes, "unchanged") = Len(last.input)
    /\ \A i \in Articles :
           /\ last.classes[i] = "new" <=> PriorDocs(i) = {}
           /\ last.classes[i] = "unchanged" <=> last.docs[i] \in PriorDocs(i)
           /\ last.classes[i] = "updated" <=>
                  (PriorDocs(i) # {} /\ last.docs[i] \notin PriorDocs(i))

\* C4: an article whose non-empty id is carried by the ID marker line of a
\* file left by an earlier run is classified updated or unchanged, never
\* new, whatever the names of the files.
C4_IdentityNotFilename ==
    \A i \in Articles :
        (last.input[i].id # <<>> /\ PriorDocs(i) # {}) => last.classes[i] # "new"

\* C5: after a run log.md is the run's entry followed by all of what log.md
\* held before; so the log holds one entry per run, most recent first.
C5_LogPrepends ==
    runs >= 1 =>
        /\ log = last.entry \o last.logBefore
        /\ last.entry # <<>>
        /\ last.entry[1].kind = "entry" /\ last.entry[1].n = runs
        /\ Cardinality(EntryLines("entry")) = 1
        /\ LET heads == SelectSeq(log, LAMBDA l : l.kind = "entry")
           IN  /\ Len(heads) = runs
               /\ \A j \in 1..Len(heads) : heads[j].n = runs + 1 - j

C5_Witness == runs >= 2 /\ Len(last.logBefore) > 5 /\ Len(last.entry) > 5

\* C6: the links under "New Articles" are the articles classified new and
\* the links under "Updated Articles" the articles classified updated, as
\* many as the totals of the entry say.
C6_LogItemizes ==
    runs >= 1 =>
        /\ {last.entry[j].n : j \in EntryLines("new_item")}
               = {i \in Articles : last.classes[i] = "new"}
        /\ {last.entry[j].n : j \in EntryLines("updated_item")}
               = {i \in Articles : last.classes[i] = "updated"}
        /\ Cardinality(EntryLines("new_item")) = CountOf(last.classes, "new")
        /\ Cardinality(EntryLines("updated_item")) = CountOf(last.classes, "updated")

FetchesOf(key) == {j \in 1..Len(RunAttempts) : RunAttempts[j].key = key}

\* The remote pieces (URLs kept) and local paths the resolutions of the last
\* run returned for a key
ResolvedTo(key) ==
    UNION {{RunMaps[i][j].to.loc : j \in {k \in 1..Len(RunMaps[i]) :
                                         KeyOf(RunMaps[i][k].orig) = key}} :
           i \in 1..Len(RunMaps)}

\* C7: URLs with the same key resolve to one local path, and a run fetches
\* a key from the remote exactly once when its file is not cached, whether
\* the fetch succeeds or fails.
C7_OneFetchPerKey ==
    \A i \in 1..Len(RunMaps) : \A j \in 1..Len(RunMaps[i]) :
        LET key == KeyOf(RunMaps[i][j].orig)
        IN  /\ Cardinality(ResolvedTo(key)) = 1
            /\ Cardinality(FetchesOf(key)) =
                   IF path_exists(save_image_path(key), last.imagesBefore) THEN 0 ELSE 1

\* C8: once the image of a key is saved, no later resolution of the key
\* fetches it: the file is found at the computed path and the same "./"
\* path is returned as by the first resolution.
C8_CacheReuse ==
    /\ \A j \in 1..Len(RunAttempts) :
           /\ NormPath(save_image_path(RunAttempts[j].key)) \notin last.imagesBefore
           /\ \A h \in 1..(j - 1) :
                  RunAttempts[h].key = RunAttempts[j].key => ~RunAttempts[h].ok
    /\ \A i \in 1..Len(RunMaps) : \A j \in 1..Len(RunMaps[i]) :
           NormPath(save_image_path(KeyOf(RunMaps[i][j].orig))) \in last.imagesBefore
               => RunMaps[i][j].how = "reuse"
    /\ \A p, q \in relOf : p[1] = q[1] => p[2] = q[2]
    /\ \A p \in relOf : Len(p[2]) >= 2 /\ p[2][1] = "."

C8_Witness ==
    /\ runs >= 2
    /\ \E i \in 1..Len(RunMaps) : \E j \in 1..Len(RunMaps[i]) :
           /\ RunMaps[i][j].how = "reuse"
           /\ NormPath(save_image_path(KeyOf(RunMaps[i][j].orig))) \in last.imagesBefore

FailedIn(i) == {j \in 1..Len(last.maps[i]) : last.maps[i][j].how = "failed"}

\* C9: when the fetch of an image fails, no file appears for its key unless
\* a later fetch of the key succeeds, the document keeps the remote URL as
\* it was, the article is still classified and written under the write
\* policy, and the run goes on to the end.
C9_SoftFailure ==
    runs >= 1 =>
        /\ Len(last.classes) = Len(last.input)
        /\ Len(last.docs) = Len(last.input)
        /\ log # <<>> /\ log[1].kind = "entry" /\ log[1].n = runs
        /\ log[2].n = Len(last.input)
        /\ \A i \in Articles : \A j \in FailedIn(i) :
               LET url == last.maps[i][j].orig
               IN  /\ path_exists(save_image_path(KeyOf(url)), images) =>
                          \E h \in 1..Len(RunAttempts) :
                              RunAttempts[h].key = KeyOf(url) /\ RunAttempts[h].ok
                   /\ \A k \in 1..Len(last.input[i].body) :
                          last.input[i].body[k] = url
                              => last.docs[i].body[k] = RemotePiece(url)
                   /\ last.classes[i] \in {"new", "updated", "unchanged"}
                   /\ last.wrote[i] <=> last.classes[i] # "unchanged"

\* C10: a run makes at most one fetch attempt per image key; after a failed
\* fetch of a key no later fetch of it is made in the same run.
C10_NoRetry ==
    \A j, h \in 1..Len(RunAttempts) :
        (j < h /\ RunAttempts[j].key = RunAttempts[h].key) => FALSE

\* C11: a call whose input file is missing or is not valid JSON returns
\* (False, 0), fetches no image, and leaves the article files, the image
\* files and log.md as they were when it started.
C11_InputErrorsLeaveNoTrace ==
    ret.file \in {"missing", "invalid"} =>
        /\ ~ret.success /\ ret.new_count = 0
        /\ ret.attempts = <<>>
        /\ dir = ret.dirBefore
        /\ images = ret.imagesBefore
        /\ log = ret.logBefore

C11_Witness ==
    /\ ret.file \in {"missing", "invalid"}
    /\ ret.call >= 2
    /\ DOMAIN dir # {} /\ images # {} /\ log # <<>>

\* C12: after a run, every article the run classified new or updated has a
\* file in the output directory that holds exactly its assembled document.
C12_OneFilePerArticle ==
    runs >= 1 =>
        \A i \in Articles :
            last.classes[i] \in {"new", "updated"} =>
                \E f \in DOMAIN dir : dir[f] = last.docs[i]

\* C13: a call whose input loads processes every article and writes its
\* log entry, whatever an article raises; a call returns False only for a
\* missing file or a JSON decode error.
C13_ArticleErrorsDoNotAbort ==
    /\ (ret.call >= 1 /\ ret.file = "json") =>
           /\ ret.success
           /\ ret.completed = ret.total
           /\ log # ret.logBefore
    /\ (ret.call >= 1 /\ ~ret.success) =>
           ret.raised \in {"FileNotFoundError", "JSONDecodeError"}

\* The link mark of a mark sequence, and the marks that are not links
LinkOf(marks) == SelectSeq(marks, LAMBDA m : m.type = "link")

OtherMarks(marks) == SelectSeq(marks, LAMBDA m : m.type # "link")

\* C14: a text whose marks hold a link and one or more of bold, italic, code
\* and strike, in any order, renders as the link syntax around the text
\* with the other marks applied inside the brackets.
C14_LinkOutermost ==
    (/\ output # <<>>
     /\ input.type = "paragraph" /\ Len(input.content) = 1
     /\ Len(LinkOf(input.content[1].marks)) = 1
     /\ OtherMarks(input.content[1].marks) # <<>>)
        => output[1] = <<"[">>
                           \o apply_marks(input.content[1].text,
                                          OtherMarks(input.content[1].marks))
                           \o <<"]", "(">> \o LinkOf(input.content[1].marks)[1].href
                           \o <<")">>

\* The rendered list items of an ordered list that are emitted
EmittedItems(node) ==
    SelectSeq([i \in 1..Len(node.content) |->
                  IF node.content[i].type = "listItem"
                  THEN convert_list_item_to_markdown(node.content[i]) ELSE <<>>],
              LAMBDA s : ~IsBlank(s))

\* C15: an ordered list with start s (1 when absent) numbers its emitted
\* items s, s+1, s+2, ... whatever other children stand before or between
\* them.
C15_ConsecutiveNumbers ==
    (output # <<>> /\ input.type = "orderedList") =>
        LET s == IF input.start = <<>> THEN 1 ELSE input.start[1]
        IN  output[1] = Join([j \in 1..Len(EmittedItems(input)) |->
                                 Num(s + j - 1) \o <<".", " ">> \o EmittedItems(input)[j]],
                             <<"\n">>)

\* What a container makes of one child
ChildRender(parent, child) ==
    IF parent.type \in {"listItem", "tableCell"} /\ child.type = "paragraph"
    THEN convert_paragraph_to_markdown(child)
    ELSE convert_node_to_markdown(child)

\* The container without the children that render empty
Pruned(node) ==
    [node EXCEPT !.content = SelectSeq(@, LAMBDA c : ~IsBlank(ChildRender(node, c)))]

\* C16: a node of unknown kind without content renders empty, and a
\* container (document, generic container, blockquote, listItem, tableCell)
\* renders the same as it does without its children that render empty.
C16_NoStraySeparators ==
    output # <<>> =>
        /\ (input.type = "mystery" /\ ~input.has_content) => output[1] = <<>>
        /\ input.type = "doc" => output[1] = parse_content(Pruned(input))
        /\ input.type \in {"section", "blockquote", "listItem"} =>
               output[1] = convert_node_to_markdown(Pruned(input))
        /\ (/\ input.type = "table" /\ Len(input.content) = 1
            /\ input.content[1].type = "tableRow" /\ Len(input.content[1].content) = 1
            /\ input.content[1].content[1].type = "tableCell") =>
               output[1] = convert_node_to_markdown(
                               InTable(Pruned(input.content[1].content[1])))

\* The rows of a table that count: tableRow children with a tableCell
ValidRows(node) ==
    SelectSeq(node.content,
              LAMBDA r : r.type = "tableRow" /\ \E j \in 1..Len(r.content) :
                                                   r.content[j].type = "tableCell")

\* "| c1 | c2 |" for the cells of a row
RowLine(row) ==
    <<"|", " ">>
        \o Join([j \in 1..Len(SelectSeq(row.content, LAMBDA c : c.type = "tableCell")) |->
                    convert_table_cell_to_markdown(
                        SelectSeq(row.content, LAMBDA c : c.type = "tableCell")[j])],
                <<" ", "|", " ">>)
        \o <<" ", "|">>

\* C17: a table with r >= 1 valid rows renders as r + 1 lines: the first
\* row, one separator of as many "---" cells as the first row has segments
\* that are not blank, then the other rows in order; with no valid row it
\* renders empty.
C17_TableLines ==
    (output # <<>> /\ input.type = "table") =>
        LET rows  == ValidRows(input)
            lines == SplitOn(output[1], "\n", <<>>)
        IN  IF rows = <<>> THEN output[1] = <<>>
            ELSE /\ Len(lines) = Len(rows) + 1
                 /\ lines[1] = RowLine(rows[1])
                 /\ lines[2] = <<"|", " ">>
                                   \o Join([k \in 1..col_count(RowLine(rows[1])) |-> <<"---">>],
                                           <<" ", "|", " ">>)
                                   \o <<" ", "|">>
                 /\ \A j \in 2..Len(rows) : lines[j + 1] = RowLine(rows[j])

\* The text nodes among the direct children of a container
TextChildren(node) == SelectSeq(node.content, LAMBDA c : c.type = "text")

\* C19: a text node renders to its text with its marks applied when it goes
\* through the general dispatch: on its own, and as a direct child of a
\* document, a blockquote, a listItem, a tableCell or a generic container.
C19_TextAnywhere ==
    output # <<>> =>
        /\ input.type = "text" => output[1] = apply_marks(input.text, input.marks)
        /\ input.type \in {"doc", "section", "blockquote", "listItem"} =>
               Cardinality({i \in 1..Len(output[1]) : output[1][i] = "t"})
                   = Len(TextChildren(input))
        /\ (/\ input.type = "table" /\ Len(input.content) = 1
            /\ input.content[1].type = "tableRow" /\ Len(input.content[1].content) = 1
            /\ input.content[1].content[1].type = "tableCell") =>
               Cardinality({i \in 1..Len(output[1]) : output[1][i] = "t"})
                   = Len(TextChildren(input.content[1].content[1]))

SlugChars ==
    {LowerCase[i] : i \in 1..Len(LowerCase)} \cup Digits \cup {"_", "-"}

\* C18: for every title over the alphabet, slugify returns a lowercase string
\* of word characters and hyphens only, without a run of two or more
\* hyphens, that neither begins nor ends with a hyphen or an underscore;
\* "Hello, World! 2024" gives "hello-world-2024"; and when the slug is empty
\* the file name carries "article-{index}" with the article's 1-based position.
C18_Slugify ==
    Len(output) >= 1 =>
        \E s \in {output[1]} :
            /\ \A i \in 1..Len(s) : s[i] \in SlugChars
            /\ \A i \in 1..(Len(s) - 1) : ~(s[i] = "-" /\ s[i + 1] = "-")
            /\ s # <<>> => s[1] \notin {"-", "_"} /\ s[Len(s)] \notin {"-", "_"}
            /\ input.title = HelloWorld2024 =>
                   s = <<"h", "e", "l", "l", "o", "-", "w", "o", "r", "l", "d",
                         "-", "2", "0", "2", "4">>
            /\ Len(output) = 2 =>
                   output[2][2] =
                       IF s # <<>> THEN s
                       ELSE <<"a", "r", "t", "i", "c", "l", "e", "-">>
                                \o <<DigitOf(input.index)>>

\* A title of punctuation, separators and underscores only, at the second
\* position of the input: the slug is empty and the file name is derived
C18_Witness ==
    /\ Len(output) = 2
    /\ input.title = <<"!", "-", " ", "_">>
    /\ input.index = 2
    /\ output[1] = <<>>
    /\ output[2][2] = <<"a", "r", "t", "i", "c", "l", "e", "-", "2">>

images_root == out_dir \o <<"images">>

\* The key's segments that name something: "" and "." name no directory
NamedSegments(key) == SelectSeq(KeyParts(key), LAMBDA c : c \notin {"", "."})

\* p is the path below the images root that the key's segments spell
MirrorsKey(p, key) ==
    /\ Len(NormPath(p)) > Len(images_root)
    /\ IsPrefix(images_root, NormPath(p))
    /\ NormPath(p) = images_root \o NamedSegments(key)

\* C20: for every key taken from a matched URL, with ".", ".." and empty
\* segments included, the file checked for existence and the file written
\* lie inside {out_dir}/images at the nested path the key's segments spell,
\* and the relative path put into the Markdown starts with "./".
C20_ImagesStayInside ==
    \A key \in {KeyOf(input.url)} :
        /\ Len(output) >= 1 =>
               /\ MirrorsKey(output[1].abs_path, key)
               /\ output[1].rel_path[1] = "."
        /\ Len(output) = 2 =>
               /\ \A f \in output[2].images \ input.cached : MirrorsKey(f, key)
               /\ \A j \in 1..Len(output[2].mapping) :
                      output[2].mapping[j].to.loc # <<>> =>
                          output[2].mapping[j].to.loc[1] = "."

\* The files of the output directory whose ID marker line carries the id
FilesOf(article_id) == {f \in DOMAIN dir : marker_id(dir[f]) = <<article_id>>}

\* C21: starting from an empty output directory, after any sequence of
\* successful runs the directory holds at most one file whose ID marker line
\* carries a given non-empty id, so the baseline get_existing_article_content
\* returns for the id is the same whatever the listing order.
C21_OneFilePerIdentity ==
    \A article_id \in get_existing_article_ids(dir) :
        /\ Cardinality(FilesOf(article_id)) <= 1
        /\ Cardinality(get_existing_article_content(dir, article_id)) = 1

====
